---------------------------- MODULE Spec2Model ----------------------------
(***************************************************************************)
(* Model of the three batch scripts of the Dracula text pipeline:          *)
(*   scripts/clean_gutenberg.py  chapter splitter / cleaner                *)
(*   scripts/make_lemmas.py      chapter re-split for the lemma table      *)
(*   scripts/geocode_places.py   place geocoder                            *)
(* A Python str is a sequence of one-character strings; positions in the   *)
(* comments are Python's (0-based), Sub(s, a, b) is the slice s[a:b].      *)
(***************************************************************************)
EXTENDS Integers, Sequences, FiniteSets, TLC

VARIABLES
    pc,           \* position of the running script
    text,         \* the str the script reads (raw, txt, or a function's argument)
    result,       \* value returned by the function under study
    matches,      \* clean_gutenberg: list of heading matches
    chapters,     \* clean_gutenberg: list of (label, body) chunks
    out_all,      \* clean_gutenberg: what was written to OUT_ALL
    written,      \* clean_gutenberg: per-chapter write_text calls, in order
    chap_df,      \* make_lemmas: rows returned by load_chapters
    candidates,   \* geocode_places: the place column
    idx,          \* geocode_places: loop index i (0-based)
    rows,         \* geocode_places: rows
    suspects,     \* geocode_places: suspects
    service_log,  \* geocode_places: calls received by the geocoding service
    sleeps,       \* geocode_places: number of time.sleep(1) calls
    out_files     \* geocode_places: the two tables written at the end

vars == <<pc, text, result, matches, chapters, out_all, written, chap_df,
          candidates, idx, rows, suspects, service_log, sleeps, out_files>>

cleanVars == <<matches, chapters, out_all, written>>
geoVars == <<candidates, idx, rows, suspects, service_log, sleeps, out_files>>

None == "None"

(***************************************************************************)
(* str primitives                                                          *)
(***************************************************************************)
NL == "\n"
CR == "\r"
TAB == "\t"
FF == "\f"

\* U+00A0 NO-BREAK SPACE, one character
NBSP == "NBSP"

\* str.isspace() / regex \s on the characters of the model's alphabet
IsSpace(c) == c \in {" ", TAB, NL, CR, FF, NBSP}

\* unicodedata.normalize("NFKC", s) on the characters of the model's
\* alphabet: NO-BREAK SPACE has the compatibility decomposition SPACE
NFKC(s) == [k \in 1..Len(s) |-> IF s[k] = NBSP THEN " " ELSE s[k]]

Min(a, b) == IF a < b THEN a ELSE b
Max(a, b) == IF a > b THEN a ELSE b

\* s[a:b]
Sub(s, a, b) == SubSeq(s, a + 1, b)

RECURSIVE LStripFrom(_, _)
LStripFrom(s, i) ==
    IF i < Len(s) /\ IsSpace(s[i + 1]) THEN LStripFrom(s, i + 1) ELSE i

RECURSIVE RStripTo(_, _)
RStripTo(s, j) ==
    IF j > 0 /\ IsSpace(s[j]) THEN RStripTo(s, j - 1) ELSE j

\* s.strip()
strip(s) ==
    LET a == LStripFrom(s, 0)
        b == RStripTo(s, Len(s))
    IN  IF a >= b THEN <<>> ELSE Sub(s, a, b)

LowerLetters == <<"a","b","c","d","e","f","g","h","i","j","k","l","m",
                  "n","o","p","q","r","s","t","u","v","w","x","y","z">>
UpperLetters == <<"A","B","C","D","E","F","G","H","I","J","K","L","M",
                  "N","O","P","Q","R","S","T","U","V","W","X","Y","Z">>
Digits == {"0","1","2","3","4","5","6","7","8","9"}

IsLower(c) == \E k \in 1..26 : LowerLetters[k] = c
IsUpper(c) == \E k \in 1..26 : UpperLetters[k] = c

\* one character of s.upper()
UpperChar(c) ==
    IF IsLower(c) THEN UpperLetters[CHOOSE k \in 1..26 : LowerLetters[k] = c] ELSE c

upper(s) == [k \in 1..Len(s) |-> UpperChar(s[k])]

\* s.lower()
lower(s) ==
    [k \in 1..Len(s) |->
        IF IsUpper(s[k]) THEN LowerLetters[CHOOSE j \in 1..26 : UpperLetters[j] = s[k]]
        ELSE s[k]]

\* regex \w
IsWord(c) == IsLower(c) \/ IsUpper(c) \/ c \in Digits \/ c = "_"

\* the literal lit occurs in s at position p (ignoring case when ic)
LitAt(s, p, lit, ic) ==
    /\ p + Len(lit) <= Len(s)
    /\ \A k \in 1..Len(lit) :
          IF ic THEN UpperChar(s[p + k]) = UpperChar(lit[k]) ELSE s[p + k] = lit[k]

\* the least element of a non-empty set of integers
Least(ps) == CHOOSE p \in ps : \A q \in ps : p <= q

\* s.find(c, p) for a one-character c, the length of s when there is none
NextChar(s, c, p) ==
    LET ps == {q \in p..(Len(s) - 1) : s[q + 1] = c}
    IN  IF ps = {} THEN Len(s) ELSE Least(ps)

RECURSIVE Split(_, _, _, _)
\* s.split(sep) for a one-character sep: the pieces of s from position a on
\* (i is the position the scan is at)
Split(s, sep, a, i) ==
    LET e == NextChar(s, sep, i)
    IN  IF e >= Len(s) THEN <<Sub(s, a, Len(s))>>
        ELSE <<Sub(s, a, e)>> \o Split(s, sep, e + 1, e + 1)

RECURSIVE Join(_, _)
\* sep.join(xs)
Join(sep, xs) ==
    IF Len(xs) = 0 THEN <<>>
    ELSE IF Len(xs) = 1 THEN xs[1]
    ELSE xs[1] \o sep \o Join(sep, Tail(xs))

(***************************************************************************)
(* clean_gutenberg.py: collapse_whitespace_paragraphs                      *)
(***************************************************************************)
RECURSIVE ReplaceCRLF(_, _)
\* s.replace("\r\n", "\n") from position i on
ReplaceCRLF(s, i) ==
    IF i >= Len(s) THEN <<>>
    ELSE IF s[i + 1] = CR /\ i + 1 < Len(s) /\ s[i + 2] = NL
         THEN <<NL>> \o ReplaceCRLF(s, i + 2)
         ELSE <<s[i + 1]>> \o ReplaceCRLF(s, i + 1)

\* .replace("\r", "\n")
ReplaceCR(s) == [k \in 1..Len(s) |-> IF s[k] = CR THEN NL ELSE s[k]]

\* " ".join(p.strip() for p in buffer)
JoinParagraph(buffer) ==
    Join(<<" ">>, [k \in 1..Len(buffer) |-> strip(buffer[k])])

RECURSIVE ReflowLoop(_, _, _, _)
\* the for loop over lines (k is the 1-based index of the next line) and the
\* flush of the leftover buffer after it
ReflowLoop(lines, k, new_lines, buffer) ==
    IF k > Len(lines)
    THEN IF Len(buffer) > 0 THEN Append(new_lines, JoinParagraph(buffer))
                            ELSE new_lines
    ELSE IF Len(strip(lines[k])) = 0
         THEN IF Len(buffer) > 0
              THEN ReflowLoop(lines, k + 1,
                              new_lines \o <<JoinParagraph(buffer), <<>>>>, <<>>)
              ELSE ReflowLoop(lines, k + 1, Append(new_lines, <<>>), <<>>)
         ELSE ReflowLoop(lines, k + 1, new_lines, Append(buffer, lines[k]))

RECURSIVE RunEnd(_, _, _)
\* end of the run of characters of set cs that starts at position i
RunEnd(s, i, cs) ==
    IF i < Len(s) /\ s[i + 1] \in cs THEN RunEnd(s, i + 1, cs) ELSE i

RECURSIVE SubRuns(_, _, _, _, _)
\* re.sub of "[cs]{n,}" by repl, from position i on
SubRuns(s, i, cs, n, repl) ==
    IF i >= Len(s) THEN <<>>
    ELSE LET e == RunEnd(s, i, cs)
         IN  IF e - i >= n THEN repl \o SubRuns(s, e, cs, n, repl)
             ELSE IF e > i THEN Sub(s, i, e) \o SubRuns(s, e, cs, n, repl)
             ELSE <<s[i + 1]>> \o SubRuns(s, i + 1, cs, n, repl)

\* a cleaner that leaves the newline runs as joined
collapse_blank_runs_M(out) == out

\* re.sub(r"\n{3,}", "\n\n", out)
collapse_blank_runs(out) == SubRuns(out, 0, {NL}, 3, <<NL, NL>>)

\* re.sub(r"[ \t]{2,}", " ", out)
collapse_space_runs(out) == SubRuns(out, 0, {" ", TAB}, 2, <<" ">>)

collapse_whitespace_paragraphs(s) ==
    LET s1 == ReplaceCR(ReplaceCRLF(s, 0))
        lines == Split(s1, NL, 0, 0)
        new_lines == ReflowLoop(lines, 1, <<>>, <<>>)
        out1 == Join(<<NL, NL>>, new_lines)
        out2 == collapse_blank_runs(out1)
        out3 == collapse_space_runs(out2)
    IN  strip(out3)

(***************************************************************************)
(* clean_gutenberg.py: roman_to_int                                        *)
(***************************************************************************)
\* roman_map.get(ch, 0)
roman_map(ch) ==
    CASE ch = "I" -> 1
      [] ch = "V" -> 5
      [] ch = "X" -> 10
      [] ch = "L" -> 50
      [] ch = "C" -> 100
      [] ch = "D" -> 500
      [] ch = "M" -> 1000
      [] OTHER -> 0

\* the test of line 59: subtract the current value
roman_subtracts_M(curr, prev) == curr <= prev
roman_subtracts(curr, prev) == curr < prev

RECURSIVE RomanLoop(_, _, _, _)
\* for ch in reversed(s): k is the 1-based index of ch
RomanLoop(s, k, val, prev) ==
    IF k = 0 THEN val
    ELSE LET curr == roman_map(s[k])
         IN  RomanLoop(s, k - 1,
                       IF roman_subtracts(curr, prev) THEN val - curr ELSE val + curr,
                       curr)

roman_to_int(s) ==
    LET t == strip(upper(s))
    IN  RomanLoop(t, Len(t), 0, 0)

(***************************************************************************)
(* Idle values of the variables a script does not use                      *)
(***************************************************************************)
CleanIdle ==
    /\ matches = <<>>
    /\ chapters = <<>>
    /\ out_all = <<>>
    /\ written = <<>>

GeoIdle ==
    /\ candidates = <<>>
    /\ idx = 0
    /\ rows = <<>>
    /\ suspects = <<>>
    /\ service_log = <<>>
    /\ sleeps = 0
    /\ out_files = {}

\* all str of length at most n over the characters cs
StringsUpTo(cs, n) == UNION {[1..k -> cs] : k \in 0..n}

(***************************************************************************)
(* make_lemmas.py: load_chapters                                           *)
(***************************************************************************)
\* regex ^ under (?m): position p starts a line
LineStart(s, p) == p = 0 \/ s[p] = NL

\* regex $ under (?m): position p ends a line
LineEnd(s, p) == p = Len(s) \/ s[p + 1] = NL

SpaceChars == {" ", TAB, NL, CR, FF, NBSP}

W_CHAPTER == <<"C","H","A","P","T","E","R">>
W_PREFACE == <<"P","R","E","F","A","C","E">>
W_FULL_TEXT == <<"F","U","L","L","_","T","E","X","T">>

\* CHAPTER\s+\d+ at position p: the position after the digits, or -1
ChapterNumEnd(s, p, ic) ==
    IF ~LitAt(s, p, W_CHAPTER, ic) THEN -1
    ELSE LET a == RunEnd(s, p + 7, SpaceChars)
             b == RunEnd(s, a, Digits)
         IN  IF a > p + 7 /\ b > a THEN b ELSE -1

\* (PREFACE|CHAPTER\s+\d+|FULL_TEXT) at position p, ignoring case: the
\* position after it, or -1
MarkerNameEnd(s, p) ==
    IF LitAt(s, p, W_PREFACE, TRUE) THEN p + 7
    ELSE IF ChapterNumEnd(s, p, TRUE) >= 0 THEN ChapterNumEnd(s, p, TRUE)
    ELSE IF LitAt(s, p, W_FULL_TEXT, TRUE) THEN p + 9
    ELSE -1

RECURSIVE LastLineEnd(_, _, _)
\* \s*$ from position a, the whitespace run ending at b: the last position q
\* in a..b that ends a line, or -1
LastLineEnd(s, a, q) ==
    IF q < a THEN -1
    ELSE IF LineEnd(s, q) THEN q
    ELSE LastLineEnd(s, a, q - 1)

\* ^\[(PREFACE|CHAPTER\s+\d+|FULL_TEXT)\]\s*$ at position p: the match as
\* [end, g1s, g1e] (group 1 is s[g1s:g1e]), end = -1 when there is none
MarkerMatchAt(s, p) ==
    IF ~(LineStart(s, p) /\ LitAt(s, p, <<"[">>, FALSE))
    THEN [end |-> -1, g1s |-> 0, g1e |-> 0]
    ELSE LET e == MarkerNameEnd(s, p + 1)
         IN  IF e < 0 \/ ~LitAt(s, e, <<"]">>, FALSE)
             THEN [end |-> -1, g1s |-> 0, g1e |-> 0]
             ELSE [end |-> LastLineEnd(s, e + 1, RunEnd(s, e + 1, SpaceChars)),
                   g1s |-> p + 1, g1e |-> e]

RECURSIVE MarkerSplit(_, _, _)
\* re.split on the marker pattern: the pieces and the captured groups, p the
\* position the scan is at and a the start of the current piece
MarkerSplit(s, p, a) ==
    IF p >= Len(s) THEN <<Sub(s, a, Len(s))>>
    ELSE LET m == MarkerMatchAt(s, p)
         IN  IF m.end >= 0
             THEN <<Sub(s, a, p), Sub(s, m.g1s, m.g1e)>> \o MarkerSplit(s, m.end, m.end)
             ELSE MarkerSplit(s, p + 1, a)

\* ^\[CHAPTER\s+\d+\] at position p (case-sensitive): the end, or -1
ChapterMarkAt(s, p) ==
    IF ~(LineStart(s, p) /\ LitAt(s, p, <<"[">>, FALSE)) THEN -1
    ELSE LET e == ChapterNumEnd(s, p + 1, FALSE)
         IN  IF e >= 0 /\ LitAt(s, e, <<"]">>, FALSE) THEN e + 1 ELSE -1

RECURSIVE ChapterSplit(_, _, _)
\* re.split on the pattern of line 28 (no group: the pieces alone)
ChapterSplit(s, p, a) ==
    IF p >= Len(s) THEN <<Sub(s, a, Len(s))>>
    ELSE LET e == ChapterMarkAt(s, p)
         IN  IF e >= 0 THEN <<Sub(s, a, p)>> \o ChapterSplit(s, e, e)
             ELSE ChapterSplit(s, p + 1, a)

DigitValue(c) ==
    CASE c = "0" -> 0 [] c = "1" -> 1 [] c = "2" -> 2 [] c = "3" -> 3
      [] c = "4" -> 4 [] c = "5" -> 5 [] c = "6" -> 6 [] c = "7" -> 7
      [] c = "8" -> 8 [] c = "9" -> 9

DigitChars == <<"0","1","2","3","4","5","6","7","8","9">>

RECURSIVE ParseInt(_)
\* int(s) for a str of digits
ParseInt(s) ==
    IF Len(s) = 0 THEN 0
    ELSE 10 * ParseInt(SubSeq(s, 1, Len(s) - 1)) + DigitValue(s[Len(s)])

RECURSIVE FormatInt(_)
\* str(n) for n >= 0
FormatInt(n) ==
    IF n < 10 THEN <<DigitChars[n + 1]>>
    ELSE Append(FormatInt(n \div 10), DigitChars[(n % 10) + 1])

\* f"{n:02d}" for n >= 0
Format02d(n) == IF n < 10 THEN <<"0">> \o FormatInt(n) ELSE FormatInt(n)

RECURSIVE FindChapterNum(_, _)
\* re.search(r'CHAPTER\s+(\d+)', s, flags=re.IGNORECASE) from position p on:
\* group 1 as [g1s, g1e], g1s = -1 when there is no match
FindChapterNum(s, p) ==
    IF p >= Len(s) THEN [g1s |-> -1, g1e |-> -1]
    ELSE LET e == ChapterNumEnd(s, p, TRUE)
         IN  IF e >= 0
             THEN [g1s |-> RunEnd(s, p + 7, SpaceChars), g1e |-> e]
             ELSE FindChapterNum(s, p + 1)

\* marker.upper().startswith("PREFACE")
IsPrefaceMarker(marker) == LitAt(upper(marker), 0, W_PREFACE, FALSE)

\* a fallback that numbers the pieces from 0
fallback_rows_M(split_points) ==
    [k \in 1..Len(split_points) |->
        [chapter |-> k - 1,
         marker |-> W_CHAPTER \o <<" ">> \o Format02d(k - 1),
         text |-> strip(split_points[k])]]

\* line 29
fallback_rows(split_points) ==
    [k \in 1..Len(split_points) |->
        [chapter |-> k,
         marker |-> W_CHAPTER \o <<" ">> \o Format02d(k),
         text |-> strip(split_points[k])]]

\* lines 31-44: row i (1-based) is made of parts[2i-1] and parts[2i] (0-based)
marker_rows(parts) ==
    [i \in 1..((Len(parts) - 1) \div 2) |->
        LET marker == strip(parts[2 * i])
            body == IF 2 * i + 1 <= Len(parts) THEN strip(parts[2 * i + 1]) ELSE <<>>
            m == FindChapterNum(marker, 0)
        IN  [chapter |-> IF m.g1s >= 0 THEN ParseInt(Sub(marker, m.g1s, m.g1e))
                         ELSE IF IsPrefaceMarker(marker) THEN 0
                         ELSE i,
             marker |-> marker,
             text |-> body]]

RECURSIVE InsertSorted(_, _)
\* r put after the last row of the sorted list whose chapter is <= r.chapter
InsertSorted(sorted_rows, r) ==
    IF Len(sorted_rows) = 0 THEN <<r>>
    ELSE IF sorted_rows[Len(sorted_rows)].chapter <= r.chapter
         THEN Append(sorted_rows, r)
         ELSE Append(InsertSorted(SubSeq(sorted_rows, 1, Len(sorted_rows) - 1), r),
                     sorted_rows[Len(sorted_rows)])

RECURSIVE SortRows(_, _)
SortRows(rs, n) ==
    IF n = 0 THEN <<>> ELSE InsertSorted(SortRows(rs, n - 1), rs[n])

\* a load_chapters that returns the rows in the order of the text
sorted_by_chapter_M(rs) == rs

\* line 45: sorted(chapters, key=chapter), a stable sort
sorted_by_chapter(rs) == SortRows(rs, Len(rs))

load_chapters(txt) ==
    LET parts == MarkerSplit(txt, 0, 0)
    IN  IF Len(parts) < 3
        THEN sorted_by_chapter(fallback_rows(ChapterSplit(txt, 0, 0)))
        ELSE sorted_by_chapter(marker_rows(parts))

(***************************************************************************)
(* clean_gutenberg.py: find_chapter_matches_in_raw                         *)
(***************************************************************************)
RomanUpper == {"I", "V", "X", "L", "C", "D", "M"}
RomanAnyCase == RomanUpper \cup {"i", "v", "x", "l", "c", "d", "m"}

RECURSIVE RestOfLine(_, _)
\* [^\n]* from position i: the position of the next newline, or the end
RestOfLine(s, i) ==
    IF i < Len(s) /\ s[i + 1] # NL THEN RestOfLine(s, i + 1) ELSE i

\* regex \b at position r, the character before r being a word character
WordEndsAt(s, r) == r = Len(s) \/ ~IsWord(s[r + 1])

NoMatch == [start |-> -1, end |-> -1, g1s |-> -1, g1e |-> -1]

\* \s+([IVXLCDM]+|\d+)\b[^\n]* from position c (the end of the CHAPTER word)
\* of a match that started at p; romans is the letter class in force
NumberedHeading(s, p, c, romans) ==
    LET b == RunEnd(s, c, SpaceChars)
        r == IF b < Len(s) /\ s[b + 1] \in romans THEN RunEnd(s, b, romans)
             ELSE RunEnd(s, b, Digits)
    IN  IF b > c /\ r > b /\ WordEndsAt(s, r)
        THEN [start |-> p, end |-> RestOfLine(s, r), g1s |-> b, g1e |-> r]
        ELSE NoMatch

\* re_upper at position p
UpperMatchAt(s, p) ==
    LET a == RunEnd(s, p, SpaceChars)
    IN  IF LineStart(s, p) /\ LitAt(s, a, W_CHAPTER, FALSE)
        THEN NumberedHeading(s, p, a + 7, RomanUpper)
        ELSE NoMatch

\* the position after an optional "/" at position a
AfterSlash(s, a) == IF LitAt(s, a, <<"/">>, FALSE) THEN a + 1 ELSE a

\* re_liberal at position p
LiberalMatchAt(s, p) ==
    LET a == AfterSlash(s, RunEnd(s, p, SpaceChars))
    IN  IF LineStart(s, p) /\ LitAt(s, a, W_CHAPTER, TRUE)
        THEN NumberedHeading(s, p, a + 7, RomanAnyCase)
        ELSE NoMatch

\* re_any at position p (a pattern without groups)
AnyMatchAt(s, p) ==
    LET a == AfterSlash(s, RunEnd(s, p, SpaceChars))
    IN  IF LineStart(s, p) /\ LitAt(s, a, W_CHAPTER, TRUE) /\ WordEndsAt(s, a + 7)
        THEN [start |-> p, end |-> RestOfLine(s, a + 7), g1s |-> -1, g1e |-> -1]
        ELSE NoMatch

HeadingMatchAt(s, p, tier) ==
    CASE tier = 1 -> UpperMatchAt(s, p)
      [] tier = 2 -> LiberalMatchAt(s, p)
      [] tier = 3 -> AnyMatchAt(s, p)

RECURSIVE FindIter(_, _, _)
\* list(pattern.finditer(s)), the scan being at position p; the patterns
\* begin with ^, so after a failure at p the next position that can match
\* is the start of the next line
FindIter(s, p, tier) ==
    IF p >= Len(s) THEN <<>>
    ELSE LET m == HeadingMatchAt(s, p, tier)
         IN  IF m.start >= 0 THEN <<m>> \o FindIter(s, m.end, tier)
             ELSE FindIter(s, NextChar(s, NL, p) + 1, tier)

\* a detector that wants more than ten strict headings
enough_strict_M(ms) == Len(ms) > 10

\* line 74
enough_strict(ms) == Len(ms) >= 10

find_chapter_matches_in_raw(s) ==
    LET strict == FindIter(s, 0, 1)
    IN  IF enough_strict(strict) THEN strict
        ELSE LET liberal == FindIter(s, 0, 2)
             IN  IF Len(liberal) > 0 THEN liberal ELSE FindIter(s, 0, 3)

(***************************************************************************)
(* clean_gutenberg.py: build_chunks_from_matches                           *)
(***************************************************************************)
RECURSIVE CollapseSpaces(_, _)
\* re.sub(r'\s+', ' ', s) from position i on
CollapseSpaces(s, i) ==
    IF i >= Len(s) THEN <<>>
    ELSE LET e == RunEnd(s, i, SpaceChars)
         IN  IF e > i THEN <<" ">> \o CollapseSpaces(s, e)
             ELSE <<s[i + 1]>> \o CollapseSpaces(s, i + 1)

\* lines 103-112: the label of the chunk of match m
chunk_label(s, m) ==
    IF m.g1s >= 0 /\ m.g1e > m.g1s
    THEN LET num_token == Sub(s, m.g1s, m.g1e)
             num == IF \A k \in 1..Len(num_token) : num_token[k] \in Digits
                    THEN ParseInt(num_token)
                    ELSE roman_to_int(num_token)
         IN  W_CHAPTER \o <<" ">> \o Format02d(num)
    ELSE LET one_line == CollapseSpaces(strip(Sub(s, m.start, m.end)), 0)
         IN  strip(SubSeq(one_line, 1, Min(60, Len(one_line))))

\* lines 113-116: the body of the chunk of match i (1-based)
chunk_body(s, ms, i) ==
    LET body_end == IF i < Len(ms) THEN ms[i + 1].start ELSE Len(s)
    IN  strip(Sub(s, ms[i].start, ms[i].end)) \o <<NL, NL>>
            \o strip(Sub(s, ms[i].end, body_end))

build_chunks_from_matches(s, ms) ==
    IF Len(ms) = 0 THEN <<[label |-> W_FULL_TEXT, body |-> strip(s)]>>
    ELSE LET pre == strip(Sub(s, 0, ms[1].start))
             first == IF ms[1].start > 0 /\ Len(pre) > 0
                      THEN <<[label |-> W_PREFACE, body |-> pre]>>
                      ELSE <<>>
         IN  first \o [i \in 1..Len(ms) |->
                          [label |-> chunk_label(s, ms[i]),
                           body |-> chunk_body(s, ms, i)]]

(***************************************************************************)
(* clean_gutenberg.py: strip_gutenberg_footer and the output loops         *)
(***************************************************************************)
STARS == <<"*", "*", "*">>
W_END_OF == <<"E","N","D"," ","O","F"," ">>
W_THIS == <<"T","H","I","S">>
W_THE == <<"T","H","E">>
W_PG_EBOOK == <<" ","P","R","O","J","E","C","T"," ","G","U","T","E","N","B","E","R","G",
                " ","E","B","O","O","K">>
W_FALLBACK == <<"E","n","d"," ","o","f"," ","t","h","e"," ","P","r","o","j","e","c","t",
                " ","G","u","t","e","n","b","e","r","g"," ","E","B","o","o","k">>

\* the first position >= p at which lit occurs in s, or -1
FindLit(s, p, lit, ic) ==
    LET ps == {q \in p..(Len(s) - Len(lit)) : LitAt(s, q, lit, ic)}
    IN  IF ps = {} THEN -1 ELSE Least(ps)

\* the footer pattern of line 127 matches at position p (ignoring case when ic)
FooterAt(s, p, ic) ==
    /\ LitAt(s, p, STARS, FALSE)
    /\ LET a == RunEnd(s, p + 3, SpaceChars)
           t == IF LitAt(s, a + 7, W_THIS, ic) THEN a + 11
                ELSE IF LitAt(s, a + 7, W_THE, ic) THEN a + 10
                ELSE -1
       IN  /\ LitAt(s, a, W_END_OF, ic)
           /\ t >= 0
           /\ LitAt(s, t, W_PG_EBOOK, ic)
           /\ FindLit(s, t + 24, STARS, FALSE) >= 0

\* the first position >= p at which the footer pattern matches, or -1
FooterScan(s, p, ic) ==
    LET ps == {q \in p..(Len(s) - 1) : FooterAt(s, q, ic)}
    IN  IF ps = {} THEN -1 ELSE Least(ps)

\* a search without re.IGNORECASE
footer_search_M(s) == FooterScan(s, 0, FALSE)

\* m_end.start() of the re.search of line 127, or -1
footer_search(s) == FooterScan(s, 0, TRUE)

strip_gutenberg_footer(s) ==
    LET at == footer_search(s)
        fb == FindLit(s, 0, W_FALLBACK, TRUE)
    IN  IF at >= 0 THEN strip(Sub(s, 0, at))
        ELSE IF fb >= 0 THEN strip(Sub(s, 0, fb))
        ELSE strip(s)

\* lines 135-136 and 149-150
tidy(body_raw) ==
    NFKC(collapse_whitespace_paragraphs(strip_gutenberg_footer(body_raw)))

RECURSIVE CombinedText(_, _)
\* lines 133-139: what the loop writes for the first n chunks
CombinedText(chunks, n) ==
    IF n = 0 THEN <<>>
    ELSE CombinedText(chunks, n - 1)
           \o <<"[">> \o chunks[n].label \o <<"]", NL, NL>>
           \o tidy(chunks[n].body) \o <<NL, NL>>

IsSafeChar(c) == IsLower(c) \/ IsUpper(c) \/ c \in Digits \/ c = "_" \/ c = "-"

DOT_TXT == <<".", "t", "x", "t">>

\* lines 142-148: the file name of a chunk
chapter_fname(label) ==
    LET m == FindChapterNum(label, 0)
    IN  IF m.g1s >= 0
        THEN Format02d(ParseInt(Sub(label, m.g1s, m.g1e))) \o DOT_TXT
        ELSE LET safe == [k \in 1..Len(label) |->
                             IF IsSafeChar(label[k]) THEN label[k] ELSE "_"]
             IN  SubSeq(safe, 1, Min(40, Len(safe))) \o DOT_TXT

\* line 90
FindMatches ==
    /\ pc = "clean_read"
    /\ matches' = find_chapter_matches_in_raw(text)
    /\ pc' = "clean_matched"
    /\ UNCHANGED <<text, result, chapters, out_all, written, chap_df, geoVars>>

\* line 120
BuildChunks ==
    /\ pc = "clean_matched"
    /\ chapters' = build_chunks_from_matches(text, matches)
    /\ pc' = "clean_chunked"
    /\ UNCHANGED <<text, result, matches, out_all, written, chap_df, geoVars>>

\* lines 133-139
WriteCombined ==
    /\ pc = "clean_chunked"
    /\ out_all' = CombinedText(chapters, Len(chapters))
    /\ pc' = "clean_files"
    /\ UNCHANGED <<text, result, matches, chapters, written, chap_df, geoVars>>

\* lines 141-151, one iteration
WriteChapterFile ==
    /\ pc = "clean_files"
    /\ Len(written) < Len(chapters)
    /\ LET c == chapters[Len(written) + 1]
       IN  written' = Append(written,
               [fname |-> chapter_fname(c.label), content |-> tidy(c.body)])
    /\ UNCHANGED <<pc, text, result, matches, chapters, out_all, chap_df, geoVars>>

\* lines 153-154
CleanDone ==
    /\ pc = "clean_files"
    /\ Len(written) = Len(chapters)
    /\ pc' = "clean_done"
    /\ UNCHANGED <<text, result, matches, chapters, out_all, written, chap_df, geoVars>>

(***************************************************************************)
(* geocode_places.py                                                       *)
(***************************************************************************)
\* degrees in units of 1/10000 degree
Deg(whole, frac) == whole * 10000 + frac

Transylvania == <<"T","r","a","n","s","y","l","v","a","n","i","a">>
Bistritz == <<"B","i","s","t","r","i","t","z">>
Bistrita == <<"B","i","s","t","r","i","t","a">>
CastleDracula == <<"C","a","s","t","l","e"," ","D","r","a","c","u","l","a">>
Romania == <<"R","o","m","a","n","i","a">>

manual_overrides ==
    (Transylvania :> [lat |-> Deg(46, 0), lon |-> Deg(25, 0),
                      note |-> "region center, Romania"])
    @@ (Bistritz :> [lat |-> Deg(47, 1333), lon |-> Deg(24, 4833),
                     note |-> "Bistrita, Romania (historic Bistritz)"])
    @@ (Bistrita :> [lat |-> Deg(47, 1333), lon |-> Deg(24, 4833),
                     note |-> "Bistrita, Romania"])
    @@ (CastleDracula :> [lat |-> Deg(46, 620), lon |-> Deg(24, 6670),
                          note |-> "approx. Bran castle / Dracula association (adjust manually)"])

country_hint ==
    (Transylvania :> Romania)
    @@ (Bistritz :> Romania)
    @@ (Bistrita :> Romania)
    @@ (CastleDracula :> Romania)

\* the set of line 75
NotGeographic == {<<"I">>, <<"S","i","r">>, <<"M","r">>, <<"M","r","s">>}

normalize(s) == strip(NFKC(s))

MAX_GEOCODE == 1000

\* candidates[:MAX_GEOCODE]
Todo == SubSeq(candidates, 1, Min(Len(candidates), MAX_GEOCODE))

\* the query of lines 85-87
query(place_key) ==
    IF place_key \in DOMAIN country_hint
    THEN place_key \o <<",", " ">> \o country_hint[place_key]
    ELSE place_key

\* a rule that also flags short names and names with a comma
hint_mismatch_M(place_key, loc) ==
    \/ Len(place_key) < 4
    \/ \E k \in 1..Len(place_key) : place_key[k] = ","
    \/ /\ place_key \in DOMAIN country_hint
       /\ LitAt(lower(country_hint[place_key]), 0, <<"r","o","m">>, FALSE)
       /\ ~(Deg(12, 0) <= loc.longitude /\ loc.longitude <= Deg(30, 0))

\* the plausibility test of lines 96-99 (loc.lon read as the longitude)
hint_mismatch(place_key, loc) ==
    /\ place_key \in DOMAIN country_hint
    /\ LitAt(lower(country_hint[place_key]), 0, <<"r","o","m">>, FALSE)
    /\ ~(Deg(12, 0) <= loc.longitude /\ loc.longitude <= Deg(30, 0))

\* an except clause that names GeocoderTimedOut alone
caught_M(reply) == reply.kind = "GeocoderTimedOut"

\* the except clause of line 103
caught(reply) == reply.kind \in {"GeocoderTimedOut", "GeocoderServiceError"}

\* what geolocator.geocode(q, timeout=15) can do: return a Location, return
\* None, raise one of the two geopy errors, or raise anything else
Replies ==
    {[kind |-> "Location", latitude |-> Deg(54, 4858), longitude |-> lon] :
        lon \in {Deg(25, 0), Deg(0 - 100, 0)}}
    \cup {[kind |-> "None"]}
    \cup {[kind |-> "GeocoderTimedOut", msg |-> "Service timed out"]}
    \cup {[kind |-> "GeocoderServiceError", msg |-> "Service not available"]}
    \cup {[kind |-> "Exception", msg |-> "unexpected"]}

OverrideRow(place_key) ==
    [place |-> place_key, lat |-> manual_overrides[place_key].lat,
     lon |-> manual_overrides[place_key].lon, source |-> "override",
     note |-> manual_overrides[place_key].note]

\* lines 85-105 for one candidate, the rows so far being rows0
GeoQueryBody(place_key, rows0) ==
    \E reply \in Replies :
        LET q == query(place_key)
        IN  /\ sleeps' = sleeps + 1
            /\ service_log' = Append(service_log,
                   [i |-> idx, query |-> q, timeout |-> 15, reply |-> reply])
            /\ IF reply.kind = "Location"
               THEN /\ rows' = Append(rows0,
                           [place |-> place_key, lat |-> reply.latitude,
                            lon |-> reply.longitude, source |-> "nominatim",
                            note |-> ""])
                    /\ suspects' =
                           IF hint_mismatch(place_key, reply)
                           THEN Append(suspects,
                                    [place |-> place_key, query |-> q,
                                     lat |-> reply.latitude, lon |-> reply.longitude,
                                     reason |-> "country_hint_mismatch"])
                           ELSE suspects
                    /\ idx' = idx + 1
                    /\ pc' = "geo_loop"
               ELSE IF reply.kind = "None"
               THEN /\ rows' = rows0
                    /\ suspects' = Append(suspects,
                           [place |-> place_key, query |-> q, lat |-> None,
                            lon |-> None, reason |-> "no_match"])
                    /\ idx' = idx + 1
                    /\ pc' = "geo_loop"
               ELSE IF caught(reply)
               THEN /\ rows' = rows0
                    /\ suspects' = Append(suspects,
                           [place |-> place_key, query |-> q, lat |-> None,
                            lon |-> None, reason |-> "error:" \o reply.msg])
                    /\ idx' = idx + 1
                    /\ pc' = "geo_loop"
               ELSE /\ rows' = rows0
                    /\ suspects' = suspects
                    /\ idx' = idx
                    /\ pc' = "geo_halted"
            /\ UNCHANGED <<text, result, chap_df, cleanVars, candidates, out_files>>

\* lines 70-76: the candidate normalizes to "" or is in the stoplist
GeoSkip ==
    /\ pc = "geo_loop"
    /\ idx < Len(Todo)
    /\ LET place_key == normalize(Todo[idx + 1])
       IN  Len(place_key) = 0 \/ place_key \in NotGeographic
    /\ idx' = idx + 1
    /\ UNCHANGED <<pc, text, result, chap_df, cleanVars, candidates, rows,
                   suspects, service_log, sleeps, out_files>>

GeoGuardOverride ==
    /\ pc = "geo_loop"
    /\ idx < Len(Todo)
    /\ normalize(Todo[idx + 1]) \in DOMAIN manual_overrides

\* an override branch without its continue
GeoOverride_M ==
    /\ GeoGuardOverride
    /\ LET place_key == normalize(Todo[idx + 1])
       IN  GeoQueryBody(place_key, Append(rows, OverrideRow(place_key)))

\* lines 79-82
GeoOverride ==
    /\ GeoGuardOverride
    /\ rows' = Append(rows, OverrideRow(normalize(Todo[idx + 1])))
    /\ idx' = idx + 1
    /\ UNCHANGED <<pc, text, result, chap_df, cleanVars, candidates,
                   suspects, service_log, sleeps, out_files>>

\* lines 85-105
GeoQuery ==
    /\ pc = "geo_loop"
    /\ idx < Len(Todo)
    /\ LET place_key == normalize(Todo[idx + 1])
       IN  /\ Len(place_key) > 0
           /\ place_key \notin NotGeographic
           /\ place_key \notin DOMAIN manual_overrides
           /\ GeoQueryBody(place_key, rows)

\* lines 108-116
GeoWrite ==
    /\ pc = "geo_loop"
    /\ idx = Len(Todo)
    /\ out_files' = {[file |-> "places_geocoded.csv",
                      columns |-> <<"place", "lat", "lon", "source", "note">>,
                      data |-> rows],
                     [file |-> "geocode_suspect.csv",
                      columns |-> <<"place", "query", "lat", "lon", "reason">>,
                      data |-> suspects]}
    /\ pc' = "geo_written"
    /\ UNCHANGED <<text, result, chap_df, cleanVars, candidates, idx, rows,
                   suspects, service_log, sleeps>>

MaxCandidates == 3

Whitby == <<"W","h","i","t","b","y">>

\* values of the place column: an override key followed by a NO-BREAK SPACE,
\* an ordinary name, a short name with a comma, a stoplist word and a blank
PlacePool ==
    {Bistritz \o <<NBSP>>, Whitby, <<"A", ",", "b">>, <<"S","i","r">>, <<" ">>}

InitGeo ==
    /\ pc = "geo_loop"
    /\ candidates \in UNION {[1..n -> PlacePool] : n \in 0..MaxCandidates}
    /\ idx = 0
    /\ rows = <<>>
    /\ suspects = <<>>
    /\ service_log = <<>>
    /\ sleeps = 0
    /\ out_files = {}
    /\ text = <<>>
    /\ result = None
    /\ chap_df = <<>>
    /\ CleanIdle

NextGeo == GeoSkip \/ GeoOverride \/ GeoQuery \/ GeoWrite

\* the script is one sequential process: it takes its next step
SpecGeo == InitGeo /\ [][NextGeo]_vars /\ WF_vars(NextGeo)

RECURSIVE OverrideRowsAmong(_, _)
\* one override row for each of the first n candidates whose normalized name
\* is a key of the override table, in order
OverrideRowsAmong(cands, n) ==
    IF n = 0 THEN <<>>
    ELSE LET key == strip(NFKC(cands[n]))
         IN  IF key \in DOMAIN manual_overrides
             THEN Append(OverrideRowsAmong(cands, n - 1),
                         [place |-> key, lat |-> manual_overrides[key].lat,
                          lon |-> manual_overrides[key].lon, source |-> "override",
                          note |-> manual_overrides[key].note])
             ELSE OverrideRowsAmong(cands, n - 1)

IsOverrideKey(place) == strip(NFKC(place)) \in DOMAIN manual_overrides

\* C5: a candidate whose normalized name is a key of the override table gets
\* no service call and no sleep, exactly one place row with the overridden
\* lat/lon and source override, and no suspect row, whatever the service does
\* on the other candidates
C5_OverrideNoCall ==
    /\ \A e \in 1..Len(service_log) :
          ~IsOverrideKey(candidates[service_log[e].i + 1])
    /\ sleeps = Len(service_log)
    /\ SelectSeq(rows, LAMBDA r : r.place \in DOMAIN manual_overrides)
          = OverrideRowsAmong(candidates, idx)
    /\ \A e \in 1..Len(suspects) : suspects[e].place \notin DOMAIN manual_overrides

\* "Bistritz<NBSP>" then "Whitby": one override row for Bistritz, one service
\* call, made for Whitby
C5_Witness ==
    /\ pc = "geo_written"
    /\ candidates = <<Bistritz \o <<NBSP>>, Whitby>>
    /\ Len(rows) = 2
    /\ rows[1] = [place |-> Bistritz, lat |-> 471333, lon |-> 244833,
                  source |-> "override",
                  note |-> "Bistrita, Romania (historic Bistritz)"]
    /\ rows[2].source = "nominatim"
    /\ Len(service_log) = 1
    /\ service_log[1].query = Whitby

\* the suspect rows one service call accounts for
SuspectsOfCall(e) ==
    LET key == strip(NFKC(candidates[e.i + 1]))
    IN  CASE e.reply.kind = "None" ->
               <<[place |-> key, query |-> e.query, lat |-> None, lon |-> None,
                  reason |-> "no_match"]>>
          [] e.reply.kind \in {"GeocoderTimedOut", "GeocoderServiceError"} ->
               <<[place |-> key, query |-> e.query, lat |-> None, lon |-> None,
                  reason |-> "error:" \o e.reply.msg]>>
          [] e.reply.kind = "Location" ->
               IF /\ key \in DOMAIN country_hint
                  /\ ~(120000 <= e.reply.longitude /\ e.reply.longitude <= 300000)
               THEN <<[place |-> key, query |-> e.query, lat |-> e.reply.latitude,
                       lon |-> e.reply.longitude, reason |-> "country_hint_mismatch"]>>
               ELSE <<>>
          [] OTHER -> <<>>

RECURSIVE SuspectsOfCalls(_, _)
SuspectsOfCalls(log, n) ==
    IF n = 0 THEN <<>> ELSE SuspectsOfCalls(log, n - 1) \o SuspectsOfCall(log[n])

SuspectReasons ==
    {"no_match", "country_hint_mismatch", "error:Service timed out",
     "error:Service not available"}

\* C6: every suspect row has reason no_match, error:<message> or
\* country_hint_mismatch; a located candidate adds a suspect row only when it
\* has a country hint and the longitude is outside the range of the hint, so
\* a short name or a comma in the name never adds one
C6_SuspectSources ==
    /\ \A e \in 1..Len(suspects) : suspects[e].reason \in SuspectReasons
    /\ suspects = SuspectsOfCalls(service_log, Len(service_log))

\* "A,b" (three characters, with a comma) located by the service far outside
\* Europe: a place row, no suspect row
C6_Witness ==
    /\ pc = "geo_written"
    /\ candidates = <<<<"A", ",", "b">>>>
    /\ Len(service_log) = 1
    /\ service_log[1].reply.kind = "Location"
    /\ service_log[1].reply.longitude = -1000000
    /\ Len(rows) = 1
    /\ suspects = <<>>

NeedsQuery(place) ==
    LET key == strip(NFKC(place))
    IN  /\ Len(key) > 0
        /\ key \notin NotGeographic
        /\ key \notin DOMAIN manual_overrides

LastCall == service_log[Len(service_log)]

C10_State ==
    /\ \A e, f \in 1..Len(service_log) :
          service_log[e].i = service_log[f].i => e = f
    /\ pc = "geo_halted" =>
          Len(service_log) > 0 /\ LastCall.reply.kind = "Exception"
    /\ pc = "geo_written" =>
          /\ idx = Len(candidates)
          /\ \A k \in 1..Len(candidates) :
                NeedsQuery(candidates[k]) =>
                    \E e \in 1..Len(service_log) : service_log[e].i = k - 1
          /\ \E f \in out_files :
                f.file = "places_geocoded.csv" /\ f.data = rows
          /\ \E f \in out_files :
                f.file = "geocode_suspect.csv" /\ f.data = suspects

C10_ErrorStep ==
    (/\ Len(service_log') = Len(service_log) + 1
     /\ service_log'[Len(service_log')].reply.kind
            \in {"GeocoderTimedOut", "GeocoderServiceError"})
    => /\ suspects' = Append(suspects,
              [place |-> strip(NFKC(candidates[idx + 1])),
               query |-> service_log'[Len(service_log')].query,
               lat |-> None, lon |-> None,
               reason |-> "error:" \o service_log'[Len(service_log')].reply.msg])
       /\ rows' = rows
       /\ idx' = idx + 1
       /\ pc' = "geo_loop"

\* C10: a timeout or service error on one call appends exactly one suspect
\* row error:<message> with null lat/lon and no place row, is not retried,
\* and the loop goes on; unless a call raises some other exception, the run
\* eventually writes both tables, every candidate processed, with at most one
\* service call per candidate
C10_ErrorNonFatal ==
    /\ []C10_State
    /\ [][C10_ErrorStep]_vars
    /\ <>(pc = "geo_written" \/ pc = "geo_halted")

\* a timeout on "Whitby", then "A,b" located, then both tables written
C10_Witness ==
    /\ pc = "geo_written"
    /\ candidates = <<Whitby, <<"A", ",", "b">>>>
    /\ Len(service_log) = 2
    /\ service_log[1].reply.kind = "GeocoderTimedOut"
    /\ service_log[2].reply.kind = "Location"
    /\ Len(suspects) = 1
    /\ suspects[1].reason = "error:Service timed out"
    /\ Len(rows) = 1
    /\ rows[1].place = <<"A", ",", "b">>

(***************************************************************************)
(* make_lemmas.py on bounded cleaned texts                                 *)
(***************************************************************************)
MaxLemmaLines == 3

\* lines of the combined text: three whole-line chapter markers (one in lower
\* case with a trailing blank), the two other markers, a line of prose, a
\* blank line, and a chapter marker followed by text on its line
LemmaLinePool ==
    {<<"[","C","H","A","P","T","E","R"," ","0","1","]">>,
     <<"[","C","H","A","P","T","E","R"," ","0","2","]">>,
     <<"[","c","h","a","p","t","e","r"," ","1","0","]"," ">>,
     <<"[","P","R","E","F","A","C","E","]">>,
     <<"[","F","U","L","L","_","T","E","X","T","]">>,
     <<"a"," ","b">>,
     <<>>,
     <<"[","C","H","A","P","T","E","R"," ","0","3","]"," ","x">>}

LemmaTexts ==
    {Join(<<NL>>, ls) : ls \in UNION {[1..n -> LemmaLinePool] : n \in 1..MaxLemmaLines}}

InitLemmas ==
    /\ pc = "lemmas_read"
    /\ text \in LemmaTexts
    /\ chap_df = <<>>
    /\ result = None
    /\ CleanIdle
    /\ GeoIdle

\* line 49
LoadChapters ==
    /\ pc = "lemmas_read"
    /\ chap_df' = load_chapters(text)
    /\ pc' = "lemmas_loaded"
    /\ UNCHANGED <<text, result, cleanVars, geoVars>>

NextLemmas == LoadChapters

SpecLemmas == InitLemmas /\ [][NextLemmas]_vars

\* the line ln is "[CHAPTER n]" (ignoring case when ic), followed by anything
\* (whole = FALSE) or by whitespace alone (whole = TRUE)
IsChapterLine(ln, ic, whole) ==
    /\ LitAt(ln, 0, <<"[">>, FALSE)
    /\ ChapterNumEnd(ln, 1, ic) >= 0
    /\ LitAt(ln, ChapterNumEnd(ln, 1, ic), <<"]">>, FALSE)
    /\ whole => \A k \in (ChapterNumEnd(ln, 1, ic) + 2)..Len(ln) : IsSpace(ln[k])

\* the line ln is "[PREFACE]" or "[FULL_TEXT]" in any case, then whitespace
IsOtherMarkerLine(ln) ==
    \E w \in {W_PREFACE, W_FULL_TEXT} :
        /\ LitAt(ln, 0, <<"[">>, FALSE)
        /\ LitAt(ln, 1, w, TRUE)
        /\ LitAt(ln, 1 + Len(w), <<"]">>, FALSE)
        /\ \A k \in (Len(w) + 3)..Len(ln) : IsSpace(ln[k])

TextLines == Split(text, NL, 0, 0)

\* the number n of a "[CHAPTER n]" line
LineNumber(ln) ==
    ParseInt(Sub(ln, RunEnd(ln, 8, SpaceChars), ChapterNumEnd(ln, 1, TRUE)))

\* the numbers of the whole-line chapter markers of the text, in order
MarkerNumbers ==
    LET ls == SelectSeq(TextLines, LAMBDA ln : IsChapterLine(ln, TRUE, TRUE))
    IN  [k \in 1..Len(ls) |-> LineNumber(ls[k])]

NumOtherMarkers == Len(SelectSeq(TextLines, IsOtherMarkerLine))

CountOf(f, v) == Cardinality({k \in 1..Len(f) : f[k] = v})

\* C4: when the marker lines of the text are [CHAPTER n] lines alone (at
\* least one, no [PREFACE], no [FULL_TEXT]), load_chapters returns one row per
\* marker line, the row's index the number n of its marker, in ascending
\* order of index
C4_ChapterOnlyRows ==
    (pc = "lemmas_loaded" /\ NumOtherMarkers = 0 /\ Len(MarkerNumbers) >= 1)
    => LET got == [k \in 1..Len(chap_df) |-> chap_df[k].chapter]
       IN  /\ Len(got) = Len(MarkerNumbers)
           /\ \A k \in 1..(Len(got) - 1) : got[k] <= got[k + 1]
           /\ \A k \in 1..Len(got) : CountOf(got, got[k]) = CountOf(MarkerNumbers, got[k])
           /\ \A k \in 1..Len(chap_df) :
                 /\ LitAt(chap_df[k].marker, 0, W_CHAPTER, TRUE)
                 /\ ParseInt(Sub(chap_df[k].marker, 8, Len(chap_df[k].marker)))
                        = chap_df[k].chapter

\* "[CHAPTER 02]", prose, "[CHAPTER 01]": two rows, chapter 1 before chapter 2
C4_Witness ==
    /\ pc = "lemmas_loaded"
    /\ MarkerNumbers = <<2, 1>>
    /\ NumOtherMarkers = 0
    /\ chap_df = <<[chapter |-> 1, marker |-> W_CHAPTER \o <<" ", "0", "1">>,
                    text |-> <<>>],
                   [chapter |-> 2, marker |-> W_CHAPTER \o <<" ", "0", "2">>,
                    text |-> <<"a", " ", "b">>]>>

\* the number of marker lines the primary split can find
NumMarkers == Len(MarkerNumbers) + NumOtherMarkers

\* the rows are the pieces between "[CHAPTER n]" line starts, numbered 1, 2,
\* 3, ... and marked CHAPTER 01, CHAPTER 02, ...
SequentialRows ==
    /\ Len(chap_df) =
          1 + Len(SelectSeq(TextLines, LAMBDA ln : IsChapterLine(ln, FALSE, FALSE)))
    /\ \A k \in 1..Len(chap_df) :
          /\ chap_df[k].chapter = k
          /\ chap_df[k].marker = W_CHAPTER \o <<" ">> \o Format02d(k)

\* C8 (as stated): when the primary split finds fewer than 2 markers (0 or 1),
\* load_chapters falls back to the split on [CHAPTER NN] alone and numbers the
\* pieces 1, 2, 3, ...
C8_FallbackBelowTwo ==
    (pc = "lemmas_loaded" /\ NumMarkers < 2) => SequentialRows

\* C8 (as amended): when the primary split finds no marker, load_chapters
\* falls back to the split on [CHAPTER NN] alone and numbers the pieces
\* 1, 2, 3, ...
C8_FallbackNoMarker ==
    (pc = "lemmas_loaded" /\ NumMarkers = 0) => SequentialRows

\* no whole-line marker, one "[CHAPTER 03] x" line after a line of prose: the
\* fallback split gives two pieces, numbered 1 and 2
C8_Witness ==
    /\ pc = "lemmas_loaded"
    /\ NumMarkers = 0
    /\ Len(chap_df) = 2
    /\ chap_df[1] = [chapter |-> 1, marker |-> W_CHAPTER \o <<" ", "0", "1">>,
                     text |-> <<"a", " ", "b">>]
    /\ chap_df[2] = [chapter |-> 2, marker |-> W_CHAPTER \o <<" ", "0", "2">>,
                     text |-> <<"x">>]

(***************************************************************************)
(* clean_gutenberg.py on bounded raw texts                                 *)
(***************************************************************************)
MaxHeadings == 10

RomanTokens ==
    <<<<"I">>, <<"I","I">>, <<"I","I","I">>, <<"I","V">>, <<"V">>, <<"V","I">>,
      <<"V","I","I">>, <<"V","I","I","I">>, <<"I","X">>, <<"X">>, <<"X","I">>,
      <<"X","I","I">>, <<"X","I","I","I">>, <<"X","I","V">>>>

\* the i-th heading of a raw text: "CHAPTER <roman>", every fourth one
\* "CHAPTER <digits>", every fifth one followed by a title
HeadingLine(i) ==
    W_CHAPTER \o <<" ">>
      \o (IF i % 4 = 0 THEN FormatInt(i) ELSE RomanTokens[i])
      \o (IF i % 5 = 0 THEN <<".", " ", "T">> ELSE <<>>)

W_lastChapter == <<"C","h","a","p","t","e","r"," ","t","h","e"," ","l","a","s","t">>

\* the line(s) put among the headings: a heading in mixed case, a strict
\* heading that repeats number 1, a heading broken over two lines, a heading
\* without number, a blank line, a line that only starts like a heading, and
\* a footer marker
OddLines ==
    {<<"C","h","a","p","t","e","r"," ","I","I">>,
     W_CHAPTER \o <<" ", "I">>,
     W_CHAPTER \o <<NL, "I", "V">>,
     W_lastChapter,
     <<>>,
     W_CHAPTER \o <<" ", "I", "N">>,
     STARS \o <<" ">> \o W_END_OF \o W_THE \o W_PG_EBOOK \o <<" ">> \o STARS}

\* what precedes the first line: nothing, a line of text, a blank line, a
\* heading without number
Prefixes == {<<>>, <<"t", NL>>, <<" ", NL>>, W_lastChapter \o <<NL>>}

RECURSIVE RawLines(_, _, _)
\* the lines of n headings, each followed by a line of prose, with the odd
\* line after the prose of heading pos (first when pos = 0)
RawLines(n, odd, pos) ==
    IF n = 0 THEN (IF pos = 0 THEN <<odd>> ELSE <<>>)
    ELSE RawLines(n - 1, odd, pos) \o <<HeadingLine(n), <<"x", " ", "y">>>>
            \o (IF pos = n THEN <<odd>> ELSE <<>>)

RawTexts ==
    {pre \o Join(<<NL>>, RawLines(n, odd, pos)) :
        pre \in Prefixes, odd \in OddLines,
        <<n, pos>> \in {np \in (0..MaxHeadings) \X (0..MaxHeadings) : np[2] <= np[1]}}

InitClean ==
    /\ pc = "clean_read"
    /\ text \in RawTexts
    /\ result = None
    /\ chap_df = <<>>
    /\ CleanIdle
    /\ GeoIdle

NextClean == FindMatches \/ BuildChunks \/ WriteCombined \/ WriteChapterFile \/ CleanDone

SpecClean == InitClean /\ [][NextClean]_vars

(***************************************************************************)
(* strip_gutenberg_footer applied to bounded inputs                        *)
(***************************************************************************)
MaxFooterSegs == 4

\* pieces of the inputs: a marker in upper case, a marker in lower case
\* without blanks, three stars, a letter, a newline, a blank, and the
\* fallback phrase
FooterSegs ==
    {STARS \o <<" ">> \o W_END_OF \o W_THIS \o W_PG_EBOOK \o <<" ", "X", " ">> \o STARS,
     STARS \o lower(W_END_OF \o W_THE \o W_PG_EBOOK) \o STARS,
     STARS, <<"x">>, <<NL>>, <<" ">>, W_FALLBACK}

RECURSIVE Concat(_)
Concat(xs) == IF Len(xs) = 0 THEN <<>> ELSE xs[1] \o Concat(Tail(xs))

FooterTexts ==
    {Concat(segs) : segs \in UNION {[1..n -> FooterSegs] : n \in 0..MaxFooterSegs}}

InitFooter ==
    /\ pc = "footer_arg"
    /\ text \in FooterTexts
    /\ result = None
    /\ chap_df = <<>>
    /\ CleanIdle
    /\ GeoIdle

CallFooter ==
    /\ pc = "footer_arg"
    /\ result' = strip_gutenberg_footer(text)
    /\ pc' = "footer_done"
    /\ UNCHANGED <<text, chap_df, cleanVars, geoVars>>

NextFooter == CallFooter

SpecFooter == InitFooter /\ [][NextFooter]_vars

(***************************************************************************)
(* roman_to_int applied to bounded inputs                                  *)
(***************************************************************************)
MaxRomanLen == 4

RomanSymbols == {"I", "V", "X", "L", "C", "D", "M"}

MCMXCIX == <<"M", "C", "M", "X", "C", "I", "X">>

RomanInputs == StringsUpTo(RomanSymbols, MaxRomanLen) \cup {MCMXCIX}

InitRoman ==
    /\ pc = "roman_arg"
    /\ text \in RomanInputs
    /\ result = None
    /\ chap_df = <<>>
    /\ CleanIdle
    /\ GeoIdle

CallRoman ==
    /\ pc = "roman_arg"
    /\ result' = roman_to_int(text)
    /\ pc' = "roman_done"
    /\ UNCHANGED <<text, chap_df, cleanVars, geoVars>>

NextRoman == CallRoman

SpecRoman == InitRoman /\ [][NextRoman]_vars

RECURSIVE SumTo(_, _)
\* f[1] + ... + f[n]
SumTo(f, n) == IF n = 0 THEN 0 ELSE f[n] + SumTo(f, n - 1)

\* the value of s when each symbol counts negative exactly when the symbol
\* immediately to its right is worth more
NeighbourScan(s) ==
    SumTo([k \in 1..Len(s) |->
              IF k < Len(s) /\ roman_map(s[k]) < roman_map(s[k + 1])
              THEN 0 - roman_map(s[k]) ELSE roman_map(s[k])], Len(s))

\* the value of s when each symbol counts negative exactly when some symbol
\* to its right is worth more (the running maximum of the scan)
RunningMaxScan(s) ==
    SumTo([k \in 1..Len(s) |->
              IF \E j \in (k + 1)..Len(s) : roman_map(s[k]) < roman_map(s[j])
              THEN 0 - roman_map(s[k]) ELSE roman_map(s[k])], Len(s))

RomanExamples ==
    /\ text = <<"X", "I", "V">> => result = 14
    /\ text = <<"I", "X">> => result = 9
    /\ text = <<"I", "I", "I">> => result = 3
    /\ text = MCMXCIX => result = 1999

\* C7 (as amended): roman_to_int returns the value of the right-to-left scan
\* that subtracts a symbol's value when it is less than the value of the
\* symbol immediately to its right and adds it otherwise; XIV is 14, IX is 9,
\* III is 3 and MCMXCIX is 1999
C7_RomanNeighbourScan ==
    pc = "roman_done" => result = NeighbourScan(text) /\ RomanExamples

\* C7 (as stated): roman_to_int returns the value of the scan that subtracts a
\* symbol's value when it is less than the largest value seen so far to its
\* right
C7_RomanRunningMax ==
    pc = "roman_done" => result = RunningMaxScan(text) /\ RomanExamples

\* MCMXCIX converted to 1999
C7_Witness ==
    /\ pc = "roman_done"
    /\ text = MCMXCIX
    /\ result = 1999

(***************************************************************************)
(* collapse_whitespace_paragraphs applied to bounded inputs, and again to  *)
(* its own output                                                          *)
(***************************************************************************)
MaxReflowLen == 5

ReflowChars == {"a", " ", TAB, NL, CR, FF}

InitReflow ==
    /\ pc = "reflow_arg"
    /\ text \in StringsUpTo(ReflowChars, MaxReflowLen)
    /\ result = None
    /\ chap_df = <<>>
    /\ CleanIdle
    /\ GeoIdle

CallReflow ==
    /\ pc = "reflow_arg"
    /\ result' = <<collapse_whitespace_paragraphs(text)>>
    /\ pc' = "reflow_once"
    /\ UNCHANGED <<text, chap_df, cleanVars, geoVars>>

CallReflowAgain ==
    /\ pc = "reflow_once"
    /\ result' = Append(result, collapse_whitespace_paragraphs(result[1]))
    /\ pc' = "reflow_twice"
    /\ UNCHANGED <<text, chap_df, cleanVars, geoVars>>

NextReflow == CallReflow \/ CallReflowAgain

SpecReflow == InitReflow /\ [][NextReflow]_vars

\* C2: reflowing an already reflowed text yields the same text
C2_ReflowIdempotent ==
    pc = "reflow_twice" => result[2] = result[1]

\* two lines around a whitespace-only line with CR line endings, reflowed
\* twice: the reflowed form is two paragraphs and differs from the input
C2_Witness ==
    /\ pc = "reflow_twice"
    /\ text = <<"a", CR, FF, CR, "a">>
    /\ result[1] = <<"a", NL, NL, "a">>
    /\ result[2] = <<"a", NL, NL, "a">>

(***************************************************************************)
(* Properties of the footer stripper                                       *)
(***************************************************************************)
\* the positions at which a footer marker starts: "***", optional whitespace,
\* END OF THIS|THE PROJECT GUTENBERG EBOOK in any letter case, and a closing
\* "***" somewhere after it
MarkerStarts(s) ==
    {p \in 0..Len(s) :
        /\ LitAt(s, p, STARS, FALSE)
        /\ \E a \in (p + 3)..Len(s) :
              /\ \A k \in (p + 4)..a : IsSpace(s[k])
              /\ \E w \in {W_THIS, W_THE} :
                    /\ LitAt(s, a, W_END_OF \o w \o W_PG_EBOOK, TRUE)
                    /\ \E q \in (a + 31 + Len(w))..Len(s) : LitAt(s, q, STARS, FALSE)}

\* C3: for a text that contains a footer marker, strip_gutenberg_footer
\* returns the text before the first marker (trimmed): no marker and nothing
\* that followed the first marker is in the output, however many "***" or
\* markers follow
C3_FooterCut ==
    (pc = "footer_done" /\ MarkerStarts(text) # {})
    => /\ result = strip(Sub(text, 0, Least(MarkerStarts(text))))
       /\ MarkerStarts(result) = {}

\* "x", a newline, an upper-case marker, then a lower-case marker: the
\* output is "x"
C3_Witness ==
    /\ pc = "footer_done"
    /\ Cardinality(MarkerStarts(text)) = 2
    /\ Least(MarkerStarts(text)) = 2
    /\ Len(text) > 80
    /\ result = <<"x">>

(***************************************************************************)
(* Properties of the chapter detector and of the per-chapter files         *)
(***************************************************************************)
\* the line ln is a strict heading: optional blanks, CHAPTER in upper case,
\* blanks, a Roman numeral in upper case or digits, ended by a word boundary
IsStrictHeadingLine(ln) ==
    LET a == RunEnd(ln, 0, SpaceChars)
        b == RunEnd(ln, a + 7, SpaceChars)
        r == RunEnd(ln, b, IF b < Len(ln) /\ ln[b + 1] \in Digits
                           THEN Digits ELSE RomanUpper)
    IN  /\ LitAt(ln, a, W_CHAPTER, FALSE)
        /\ b > a + 7
        /\ r > b
        /\ (r = Len(ln) \/ ~IsWord(ln[r + 1]))

StrictLineCount == Len(SelectSeq(Split(text, NL, 0, 0), IsStrictHeadingLine))

\* the positions of the word CHAPTER of the strict headings of s: only
\* whitespace between a line start and the word, then whitespace and a number
StrictHeads(s) ==
    {a \in 0..Len(s) :
        /\ LitAt(s, a, W_CHAPTER, FALSE)
        /\ \E p \in 0..a : LineStart(s, p) /\ \A k \in (p + 1)..a : IsSpace(s[k])
        /\ LET b == RunEnd(s, a + 7, SpaceChars)
               r == RunEnd(s, b, IF b < Len(s) /\ s[b + 1] \in Digits
                                 THEN Digits ELSE RomanUpper)
           IN  b > a + 7 /\ r > b /\ (r = Len(s) \/ ~IsWord(s[r + 1]))}

\* the number a heading token stands for
TokenValue(tok) ==
    IF tok[1] \in Digits THEN ParseInt(tok) ELSE NeighbourScan(tok)

\* the chunks are an optional PREFACE chunk (the non-blank text before the
\* first match) and then one chunk per match, in order, labelled by the
\* number of the heading and starting with the heading
ChunkPerMatch ==
    LET pre == strip(Sub(text, 0, matches[1].start))
        off == IF Len(pre) > 0 THEN 1 ELSE 0
    IN  /\ Len(chapters) = Len(matches) + off
        /\ off = 1 => chapters[1] = [label |-> W_PREFACE, body |-> pre]
        /\ \A k \in 1..Len(matches) :
              LET m == matches[k]
                  c == chapters[off + k]
                  head == strip(Sub(text, m.start, m.end))
              IN  /\ c.label = W_CHAPTER \o <<" ">>
                                  \o Format02d(TokenValue(Sub(text, m.g1s, m.g1e)))
                  /\ LitAt(c.body, 0, head \o <<NL, NL>>, FALSE)

\* C1: when the raw text has at least 10 strict heading lines, the matches
\* returned are exactly the strict (tier 1) matches, in source order, and
\* the chunks are one per match, in order, after at most one PREFACE chunk,
\* present only when non-blank text precedes the first heading
C1_StrictTier ==
    (pc = "clean_chunked" /\ StrictLineCount >= 10)
    => /\ Len(matches) = Cardinality(StrictHeads(text))
       /\ \A k \in 1..Len(matches) :
             /\ LStripFrom(text, matches[k].start) \in StrictHeads(text)
             /\ k > 1 => matches[k - 1].end <= matches[k].start
       /\ ChunkPerMatch

\* ten strict headings after a line of text, with a mixed-case heading among
\* them that only the liberal pattern matches: ten matches, eleven chunks,
\* the first one the PREFACE
C1_Witness ==
    /\ pc = "clean_chunked"
    /\ StrictLineCount = 10
    /\ Len(matches) = 10
    /\ Len(FindIter(text, 0, 2)) = 11
    /\ Len(chapters) = 11
    /\ chapters[1] = [label |-> W_PREFACE, body |-> <<"t">>]
    /\ chapters[5].label = W_CHAPTER \o <<" ", "0", "4">>
    /\ chapters[10].label = W_CHAPTER \o <<" ", "0", "9">>

\* C9: every per-chapter file is written at most once in a run: distinct
\* chunks go to distinct file names, so the number of files written is the
\* number of chunks
C9_WriteOnce ==
    pc = "clean_done" =>
        /\ Len(written) = Len(chapters)
        /\ Cardinality({written[k].fname : k \in 1..Len(written)}) = Len(chapters)

=============================================================================
